---- MODULE Spec2Model ----
(***************************************************************************)
(* Model of 227_whisper_subtitles_generation.py: the SRT writer            *)
(* (format_timestamp, prepare_srt) and the decoder key/value cache         *)
(* (save_to_cache, attention_forward, block_forward, decoder_forward,      *)
(* OpenVINOTextDecoder, OpenVINOInference).                                *)
(***************************************************************************)
EXTENDS Integers, Sequences, FiniteSets, TLC

VARIABLES
    call,         \* a single call of a function: [fn, arg]
    pc,           \* "called" before that call ran, "returned" after
    result,       \* what that call returned or raised
    script,       \* how far the notebook has run
    export_cache, \* the global kv_cache of the export (lines 222-223)
    decoder_inputs, \* model.decoder._input_names of the OpenVINOTextDecoder
    inference,    \* the OpenVINOInference of the current decoding task
    last_call,    \* record of the last operation, and of its decoder call
    processed     \* tokens handed to the decoder since the cache was empty

call_vars == <<call, pc, result>>
decode_vars ==
    <<script, export_cache, decoder_inputs, inference, last_call, processed>>
vars == <<call, pc, result, script, export_cache, decoder_inputs, inference,
          last_call, processed>>

(***************************************************************************)
(* Python values.                                                          *)
(***************************************************************************)
\* A call that returned v / that raised an exception with message msg.
Return(v) == [raised |-> FALSE, value |-> v]
Raise(msg) == [raised |-> TRUE, value |-> msg]
NoResult == [raised |-> FALSE, value |-> "(pending)"]

\* A float argument is the rational num/den.  The inputs used below are exactly
\* representable doubles (den = 4096) or decimals with at most three places
\* (den = 1000), for which the double product seconds * 1000.0 rounds to the
\* same integer as the exact product.
Time(num, den) == [num |-> num, den |-> den]

Digit == <<"0", "1", "2", "3", "4", "5", "6", "7", "8", "9">>

\* str(n) / f"{n}" for an int n >= 0.
RECURSIVE str(_)
str(n) == IF n < 10 THEN Digit[n + 1] ELSE str(n \div 10) \o Digit[(n % 10) + 1]

\* The zero padding of f"{n:0<width>d}": zeros are added up to the minimum
\* width, a longer number is printed in full.
RECURSIVE zfill(_, _)
zfill(s, width) == IF Len(s) >= width THEN s ELSE zfill("0" \o s, width)

\* round(x) of Python 3 for x = n/d, d > 0: to the nearest integer, a tie to
\* the even one.
round(n, d) ==
    LET q == n \div d
        r == n % d
    IN  IF 2 * r < d THEN q
        ELSE IF 2 * r > d THEN q + 1
        ELSE IF q % 2 = 0 THEN q ELSE q + 1

(***************************************************************************)
(* format_timestamp                                                        *)
(***************************************************************************)
RECURSIVE gcd(_, _)
gcd(a, b) == IF b = 0 THEN a ELSE gcd(b, a % b)

\* seconds * 1000.0 as a fraction, reduced by gcd(1000, den) (the numbers
\* stay below 2^31).
times_1000(seconds) ==
    LET g == gcd(1000, seconds.den)
    IN  [num |-> seconds.num * (1000 \div g), den |-> seconds.den \div g]

\* milliseconds = round(seconds * 1000.0)
round_milliseconds(seconds) ==
    round(times_1000(seconds).num, times_1000(seconds).den)

\* Mutant: the assertion tests the rounded milliseconds.
assert_rounded_non_negative(seconds) == round_milliseconds(seconds) >= 0

\* assert seconds >= 0
assert_non_negative(seconds) == seconds.num >= 0

\* Mutant: the minutes are taken from the total, the hours not subtracted.
timestamp_fields_hours_kept(total) ==
    LET hours == total \div 3600000
        minutes == total \div 60000
        ms2 == total - minutes * 60000
        secs == ms2 \div 1000
        ms3 == ms2 - secs * 1000
    IN  [hours |-> hours, minutes |-> minutes, seconds |-> secs,
         milliseconds |-> ms3]

\* The four locals at the return statement, by successive subtraction.
timestamp_fields(total) ==
    LET hours == total \div 3600000
        ms1 == total - hours * 3600000
        minutes == ms1 \div 60000
        ms2 == ms1 - minutes * 60000
        secs == ms2 \div 1000
        ms3 == ms2 - secs * 1000
    IN  [hours |-> hours, minutes |-> minutes, seconds |-> secs,
         milliseconds |-> ms3]

\* Mutant: no hours marker at all when the hour count is zero.
hours_marker_omitted(hours) == IF hours > 0 THEN str(hours) \o ":" ELSE ""

\* (f"{hours}:" if hours > 0 else "00:")
hours_marker(hours) == IF hours > 0 THEN str(hours) \o ":" ELSE "00:"

\* f"{minutes:02d}:{seconds:02d},{milliseconds:03d}"
clock_string(f) ==
    zfill(str(f.minutes), 2) \o ":" \o zfill(str(f.seconds), 2) \o ","
        \o zfill(str(f.milliseconds), 3)

format_timestamp(seconds) ==
    IF ~assert_non_negative(seconds)
    THEN Raise("non-negative timestamp expected")
    ELSE LET f == timestamp_fields(round_milliseconds(seconds))
         IN  Return(hours_marker(f.hours) \o clock_string(f))

(***************************************************************************)
(* prepare_srt                                                             *)
(***************************************************************************)
\* Mutant: the time line is closed with the start time.
segment_lines_of_start_twice(segment) ==
    LET time_start == format_timestamp(segment.start)
        time_end == format_timestamp(segment.end)
    IN  IF time_start.raised THEN time_start
        ELSE IF time_end.raised THEN time_end
        ELSE Return(<<str(segment.id + 1) \o "\n",
                      time_start.value \o " --> " \o time_start.value \o "\n",
                      segment.text \o "\n\n">>)

\* The three entries appended for one segment, or the exception raised by
\* format_timestamp (start is formatted before end).
segment_lines_of(segment) ==
    LET time_start == format_timestamp(segment.start)
        time_end == format_timestamp(segment.end)
    IN  IF time_start.raised THEN time_start
        ELSE IF time_end.raised THEN time_end
        ELSE Return(<<str(segment.id + 1) \o "\n",
                      time_start.value \o " --> " \o time_end.value \o "\n",
                      segment.text \o "\n\n">>)

\* The loop over transcription["segments"], from segment i on, segment_lines
\* holding what was appended so far.
RECURSIVE srt_loop(_, _, _)
srt_loop(segments, i, segment_lines) ==
    IF i > Len(segments) THEN Return(segment_lines)
    ELSE LET block == segment_lines_of(segments[i])
         IN  IF block.raised THEN block
             ELSE srt_loop(segments, i + 1, segment_lines \o block.value)

prepare_srt(transcription) == srt_loop(transcription.segments, 1, <<>>)

(***************************************************************************)
(* Tensors and dictionaries.                                               *)
(*                                                                         *)
(* A tensor of shape (beam, sequence, hidden) is a sequence of rows, one   *)
(* per beam, each the sequence of its columns along the sequence axis.  A  *)
(* column stands for one hidden vector and records what it was computed    *)
(* from: <<token, position>> for a text token, <<audio, frame>> for an     *)
(* audio frame.  The linear projections and the attention keep this        *)
(* provenance, column by column.                                           *)
(*                                                                         *)
(* A Python dict is the sequence of its items in insertion order.          *)
(***************************************************************************)
\* tensor.shape[0] and tensor.shape[1]
shape0(t) == Len(t)
shape1(t) == IF Len(t) = 0 THEN 0 ELSE Len(t[1])

\* torch.cat([a, b], dim=1)
cat(a, b) == [r \in 1..Len(a) |-> a[r] \o b[r]]

\* np.zeros((rows, 0, hidden))
zeros(rows) == [r \in 1..rows |-> <<>>]

\* tensor[:, -1:]
last_column(t) == [r \in 1..Len(t) |-> SubSeq(t[r], Len(t[r]), Len(t[r]))]

\* tensor[source_indices], the indices counted from 1
index_select(t, source_indices) ==
    [j \in 1..Len(source_indices) |-> t[source_indices[j]]]

dict_keys(d) == [i \in 1..Len(d) |-> d[i].key]
dict_has(d, k) == \E i \in 1..Len(d) : d[i].key = k
dict_get(d, k) == d[CHOOSE i \in 1..Len(d) : d[i].key = k].val
dict_set(d, k, v) ==
    IF dict_has(d, k)
    THEN [i \in 1..Len(d) |->
             IF d[i].key = k THEN [key |-> k, val |-> v] ELSE d[i]]
    ELSE Append(d, [key |-> k, val |-> v])

\* The element of a one-element set.  Only({F(x) : x \in {e}}) is F(e) with e
\* evaluated once, where LET x == e IN F(x) evaluates e at every use of x.
Only(S) == CHOOSE y \in S : TRUE

\* Optional[...] arguments.
Some(v) == [some |-> TRUE, v |-> v]
None == [some |-> FALSE, v |-> <<>>]

(***************************************************************************)
(* The model's dimensions, scaled down: whisper "base" has 448 text        *)
(* positions, 1500 audio frames and 6 decoder blocks.  What the code       *)
(* depends on is kept: an audio feature tensor is longer than the          *)
(* positional embedding table.                                             *)
(***************************************************************************)
\* positional_embeddings_size = model.decoder.positional_embedding.shape[0]
positional_embeddings_size == 4
\* The audio frames of audio_features, "audio_features[1..5 1500 512]".
n_audio_ctx == 5
\* len(model.decoder.blocks)
NumBlocks == 2
\* beam_size=5, best_of=5; torch.ones((5, 3)): the rows of every tensor.
BeamSize == 5
\* torch.ones((5, 3)): the length of the first example input.
ExampleTokens == 3

(***************************************************************************)
(* save_to_cache, attention_forward, block_forward, decoder_forward        *)
(***************************************************************************)
\* Mutant: the stored value is always replaced.
save_to_cache_replace(cache, module, output) ==
    [cache |-> dict_set(cache, module, output), value |-> output]

\* Mutant: an output as long as the table is stored as-is (>= for >).
save_to_cache_at_least(cache, module, output) ==
    Only({[cache |-> stored, value |-> dict_get(stored, module)] :
          stored \in
            {IF ~dict_has(cache, module)
                   \/ shape1(output) >= positional_embeddings_size
             THEN dict_set(cache, module, output)
             ELSE dict_set(cache, module,
                           cat(dict_get(cache, module), output))}})

\* The dict after the call and the value returned, cache[module].
save_to_cache(cache, module, output) ==
    Only({[cache |-> stored, value |-> dict_get(stored, module)] :
          stored \in
            {IF ~dict_has(cache, module)
                   \/ shape1(output) > positional_embeddings_size
             THEN dict_set(cache, module, output)
             ELSE dict_set(cache, module,
                           cat(dict_get(cache, module), output))}})

\* attention_module.key / attention_module.value: one column per column.
key(t) == t
value(t) == t

\* k = save_to_cache(kv_cache, f'k_{idx}', k); v = save_to_cache(kv_cache,
\* f'v_{idx}', v): the two results.
save_both(cache, idx, k, v) ==
    Only({[k |-> sk, v |-> save_to_cache(sk.cache, "v_" \o idx, v)] :
          sk \in {save_to_cache(cache, "k_" \o idx, k)}})

\* attention_forward(attention_module, x, xa, mask, kv_cache, idx): the
\* output (of the shape of x), the keys and values attended to, the cache,
\* and the log of the projections applied and the cache entries written.
attention_forward(x, xa, kv_cache, idx) ==
    IF ~kv_cache.some \/ ~xa.some
    THEN IF kv_cache.some
         THEN Only({[out |-> x, k |-> s.k.value, v |-> s.v.value,
                     kv_cache |-> Some(s.v.cache),
                     log |-> <<<<"key", idx>>, <<"value", idx>>,
                               <<"save", "k_" \o idx>>,
                               <<"save", "v_" \o idx>>>>] :
                    s \in {save_both(kv_cache.v, idx,
                                     key(IF ~xa.some THEN x ELSE xa.v),
                                     value(IF ~xa.some THEN x ELSE xa.v))}})
         ELSE [out |-> x, k |-> key(IF ~xa.some THEN x ELSE xa.v),
               v |-> value(IF ~xa.some THEN x ELSE xa.v),
               kv_cache |-> kv_cache,
               log |-> <<<<"key", idx>>, <<"value", idx>>>>]
    ELSE \* kv_cache.get(name, save_to_cache(...)): Python evaluates the
         \* default argument, the projection and the save, before the lookup,
         \* which then finds the entry just written.
         Only({[out |-> x,
                k |-> dict_get(s.k.cache, "k_" \o idx),
                v |-> dict_get(s.v.cache, "v_" \o idx),
                kv_cache |-> Some(s.v.cache),
                log |-> <<<<"key", idx>>, <<"save", "k_" \o idx>>,
                          <<"value", idx>>, <<"save", "v_" \o idx>>>>] :
               s \in {save_both(kv_cache.v, idx, key(xa.v), value(xa.v))}})

\* block_forward(residual_block, x, xa, mask, kv_cache, idx); every decoder
\* block has a cross-attention module.
block_forward(x, xa, kv_cache, idx) ==
    Only({Only({[x |-> c.out, kv_cache |-> c.kv_cache,
                 log |-> a.log \o c.log] :
                c \in {attention_forward(a.out, Some(xa), a.kv_cache,
                                         str(idx) \o "c")}}) :
          a \in {attention_forward(x, None, kv_cache, str(idx) \o "a")}})

\* for block in decoder.blocks: x, kv_cache = block(x, xa, ...), from block
\* idx on.
RECURSIVE blocks_loop(_, _, _, _, _)
blocks_loop(x, xa, kv_cache, idx, log) ==
    IF idx >= NumBlocks THEN [x |-> x, kv_cache |-> kv_cache, log |-> log]
    ELSE Only({blocks_loop(b.x, xa, b.kv_cache, idx + 1, log \o b.log) :
               b \in {block_forward(x, xa, kv_cache, idx)}})

\* Mutant: the offset is read from the last cache entry.
cache_offset_last(kv_cache) ==
    IF kv_cache.some /\ Len(kv_cache.v) > 0
    THEN shape1(kv_cache.v[Len(kv_cache.v)].val) ELSE 0

\* offset = next(iter(kv_cache.values())).shape[1] if kv_cache else 0
cache_offset(kv_cache) ==
    IF kv_cache.some /\ Len(kv_cache.v) > 0
    THEN shape1(kv_cache.v[1].val) ELSE 0

\* decoder.token_embedding(x) + decoder.positional_embedding[offset:
\* offset + x.shape[-1]]: the column of token t at position p is <<t, p>>.
\* The slice covers the tokens when offset + x.shape[-1] is at most
\* positional_embeddings_size, which the callers keep.
embed(tokens, offset) ==
    [r \in 1..Len(tokens) |->
        [i \in 1..Len(tokens[r]) |-> <<tokens[r][i], offset + i - 1>>]]

\* decoder_forward(decoder, x, xa, kv_cache)
decoder_forward(x, xa, kv_cache) ==
    Only({[logits |-> b.x, kv_cache |-> b.kv_cache, log |-> b.log,
           offset |-> cache_offset(kv_cache)] :
          b \in {blocks_loop(embed(x, cache_offset(kv_cache)), xa, kv_cache,
                             0, <<>>)}})

\* torch.ones((BeamSize, n))
ones(n) == [r \in 1..BeamSize |-> [i \in 1..n |-> 1]]

\* model.encoder(mel) for a mel of the given number of rows cut from audio a:
\* one row of n_audio_ctx frames per row of the mel.
encoder(rows, a) ==
    [r \in 1..rows |-> [j \in 1..n_audio_ctx |-> <<a, j - 1>>]]

\* mel = torch.zeros((1, 80, 3000)); audio_features = model.encoder(mel): the
\* example input of the export, a batch of one row.
example_audio_features == encoder(1, 0)

\* The audio_features handed to logits for audio a: the encoder output, one
\* copy per beam ("audio_features[1..5 1500 512]").
audio_features_of(a) == encoder(BeamSize, a)

\* kv_cache.keys() after the first call, model.decoder(tokens,
\* audio_features, kv_cache={}): the order of the exported inputs and outputs.
export_keys ==
    dict_keys(decoder_forward(ones(ExampleTokens), example_audio_features,
                              Some(<<>>)).kv_cache.v)

(***************************************************************************)
(* OpenVINOTextDecoder                                                     *)
(***************************************************************************)
self_attention_keys ==
    UNION {{"k_" \o str(i) \o "a", "v_" \o str(i) \o "a"} :
              i \in 0..(NumBlocks - 1)}
cross_attention_keys ==
    UNION {{"k_" \o str(i) \o "c", "v_" \o str(i) \o "c"} :
              i \in 0..(NumBlocks - 1)}

\* self._input_names = [inp.any_name for inp in self.model.inputs]: "tokens",
\* "audio_features" and the "in_<key>" inputs of the exported graph.  The
\* self-attention inputs are always there; the cross-attention inputs, which
\* the traced graph never reads, may have been left out by the export.
input_names_of(with_cross) ==
    SelectSeq(<<"tokens", "audio_features">>
                  \o [i \in 1..Len(export_keys) |-> "in_" \o export_keys[i]],
              LAMBDA n : with_cross
                  \/ n \notin {"in_" \o k : k \in cross_attention_keys})

\* init_past_inputs(self, feed_dict)
RECURSIVE init_past_loop(_, _, _, _)
init_past_loop(input_names, i, feed_dict, beam_size) ==
    IF i > Len(input_names) THEN feed_dict
    ELSE IF input_names[i] \in {"tokens", "audio_features"}
    THEN init_past_loop(input_names, i + 1, feed_dict, beam_size)
    ELSE init_past_loop(input_names, i + 1,
                        dict_set(feed_dict, input_names[i], zeros(beam_size)),
                        beam_size)

init_past_inputs(input_names, feed_dict) ==
    init_past_loop(input_names, 1, feed_dict,
                   shape0(dict_get(feed_dict, "tokens")))

in_sequence(x, names) == \E i \in 1..Len(names) : names[i] = x

\* for k, v in kv_cache.items(): ... feed_dict[new_k] = Tensor(v.numpy()),
\* from item i on.  The conversions copy the float32 data unchanged.
RECURSIVE feed_cache_loop(_, _, _, _)
feed_cache_loop(input_names, kv_cache, i, feed_dict) ==
    IF i > Len(kv_cache) THEN feed_dict
    ELSE LET new_k == "in_" \o kv_cache[i].key
         IN  feed_cache_loop(input_names, kv_cache, i + 1,
                 IF in_sequence(new_k, input_names)
                 THEN dict_set(feed_dict, new_k, kv_cache[i].val)
                 ELSE feed_dict)

\* preprocess_kv_cache_inputs(self, feed_dict, kv_cache); "not kv_cache"
\* holds of None and of the empty dict.
preprocess_kv_cache_inputs(input_names, feed_dict, kv_cache) ==
    IF ~kv_cache.some \/ Len(kv_cache.v) = 0
    THEN init_past_inputs(input_names, feed_dict)
    ELSE feed_cache_loop(input_names, kv_cache.v, 1, feed_dict)

\* The cache the exported graph works on: the "in_<key>" inputs it was fed,
\* in the order of the export.
graph_cache(feed_dict) ==
    LET fed == SelectSeq(export_keys,
                         LAMBDA k : dict_has(feed_dict, "in_" \o k))
    IN  [i \in 1..Len(fed) |->
            [key |-> fed[i], val |-> dict_get(feed_dict, "in_" \o fed[i])]]

\* self.compiled_model(feed_dict): the graph traced from decoder_forward by
\* torch.onnx.export, its outputs "logits" and "out_<key>" in the order of the
\* export.
compiled_model(feed_dict) ==
    Only({[outputs |->
              <<[key |-> "logits", val |-> r.logits]>>
                  \o [i \in 1..Len(export_keys) |->
                         [key |-> "out_" \o export_keys[i],
                          val |-> dict_get(r.kv_cache.v, export_keys[i])]],
           log |-> r.log, offset |-> r.offset] :
          r \in {decoder_forward(dict_get(feed_dict, "tokens"),
                                 dict_get(feed_dict, "audio_features"),
                                 Some(graph_cache(feed_dict)))}})

\* tensor_name.replace('out_', '') of an output name of the graph.
without_out(name) == CHOOSE k \in {export_keys[i] : i \in 1..Len(export_keys)} :
                         "out_" \o k = name

\* postprocess_outputs(self, outputs)
RECURSIVE postprocess_loop(_, _, _, _)
postprocess_loop(outputs, i, logits, kv_cache) ==
    IF i > Len(outputs) THEN [logits |-> logits, kv_cache |-> kv_cache]
    ELSE IF outputs[i].key = "logits"
    THEN postprocess_loop(outputs, i + 1, outputs[i].val, kv_cache)
    ELSE postprocess_loop(outputs, i + 1, logits,
             dict_set(kv_cache, without_out(outputs[i].key), outputs[i].val))

postprocess_outputs(outputs) == postprocess_loop(outputs, 1, <<>>, <<>>)

\* OpenVINOTextDecoder.forward(self, x, xa, kv_cache): the logits and the new
\* cache, with the feed_dict and what the graph did for the record.
run_and_postprocess(feed_dict) ==
    Only({Only({[logits |-> post.logits, kv_cache |-> post.kv_cache,
                 feed_dict |-> feed_dict, log |-> res.log,
                 offset |-> res.offset] :
                post \in {postprocess_outputs(res.outputs)}}) :
          res \in {compiled_model(feed_dict)}})

text_decoder_forward(input_names, x, xa, kv_cache) ==
    Only({run_and_postprocess(feed_dict) :
          feed_dict \in
            {preprocess_kv_cache_inputs(input_names,
                 <<[key |-> "tokens", val |-> x],
                   [key |-> "audio_features", val |-> xa]>>, kv_cache)}})

(***************************************************************************)
(* OpenVINOInference                                                       *)
(***************************************************************************)
\* __init__(self, model, initial_token_length)
new_inference(initial_token_length) ==
    [initial_token_length |-> initial_token_length, kv_cache |-> <<>>]

\* Mutant: a sequence as long as the initial tokens is cut too (>= for >).
tokens_passed_at_least(self, tokens) ==
    IF shape1(tokens) >= self.initial_token_length THEN last_column(tokens)
    ELSE tokens

\* The tokens logits hands to the decoder.
tokens_passed(self, tokens) ==
    IF shape1(tokens) > self.initial_token_length THEN last_column(tokens)
    ELSE tokens

\* logits(self, tokens, audio_features): the inference object after the
\* call, and the decoder's call record.
inference_logits(self, input_names, tokens, audio_features) ==
    Only({[self |-> [self EXCEPT !.kv_cache = r.kv_cache],
           logits |-> r.logits, feed_dict |-> r.feed_dict, log |-> r.log,
           offset |-> r.offset] :
          r \in {text_decoder_forward(input_names,
                                      tokens_passed(self, tokens),
                                      audio_features, Some(self.kv_cache))}})

\* Mutant: the cache is left as it is.
cleanup_caching_kept(self) == self

\* cleanup_caching(self)
cleanup_caching(self) == [self EXCEPT !.kv_cache = <<>>]

\* Mutant: the cache is left as it is.
rearrange_kv_cache_kept(self, source_indices) == self

\* rearrange_kv_cache(self, source_indices)
rearrange_kv_cache(self, source_indices) ==
    [self EXCEPT !.kv_cache =
        [i \in 1..Len(self.kv_cache) |->
            [key |-> self.kv_cache[i].key,
             val |-> index_select(self.kv_cache[i].val, source_indices)]]]

(***************************************************************************)
(* Inputs of the single calls.                                             *)
(***************************************************************************)
MaxSegments == 2
MaxSegmentId == 1

HourValues == {0, 1, 10, 100}
MinuteValues == {0, 1, 59}
SecondValues == {0, 1, 5, 59}
MilliValues == {0, 234, 999}

\* Decimal inputs h*3600 + m*60 + s + ms/1000 seconds.
DecimalTimes ==
    {Time(((h * 60 + m) * 60 + s) * 1000 + ms, 1000) :
        h \in HourValues, m \in MinuteValues, s \in SecondValues,
        ms \in MilliValues}

\* Binary fractions: 62.5 ms and 187.5 ms (ties), 0.5 s, 3599.9375 s,
\* 3599.99951171875 s (rounds up to one hour).
BinaryTimes ==
    {Time(256, 4096), Time(768, 4096), Time(2048, 4096),
     Time(14745344, 4096), Time(14745598, 4096)}

\* Negative inputs; -1/4096 s rounds to 0 ms.
NegativeTimes == {Time(-1, 1000), Time(-5000, 1000), Time(-1, 4096)}

TimeValues == DecimalTimes \cup BinaryTimes \cup NegativeTimes

SegmentStarts == {Time(0, 1000), Time(3661234, 1000), Time(-1, 1000)}
SegmentEnds == {Time(5000, 1000), Time(-1, 1000)}

Segments ==
    [id : 0..MaxSegmentId, start : SegmentStarts, end : SegmentEnds,
     text : {" Hello", ""}]

SeqsUpTo(S, n) == UNION {[1..k -> S] : k \in 0..n}

Transcriptions == {[segments |-> s] : s \in SeqsUpTo(Segments, MaxSegments)}

\* A tensor of two rows and n columns, its columns tagged.
TestRows == 2
test_tensor(tag, n) ==
    [r \in 1..TestRows |-> [i \in 1..n |-> <<tag + r, i - 1>>]]

\* Stored lengths: a zero-length tensor, one column, a full table, one more.
StoredLengths ==
    {0, 1, positional_embeddings_size, positional_embeddings_size + 1}
OutputLengths ==
    {1, 2, positional_embeddings_size, positional_embeddings_size + 1}

\* Caches holding none, one or both of k_0a and k_0c.
TestCaches ==
    {<<>>}
        \cup {<<[key |-> k, val |-> test_tensor(10, n)]>> :
                 k \in {"k_0a", "k_0c"}, n \in StoredLengths}
        \cup {<<[key |-> "k_0a", val |-> test_tensor(10, n)],
                [key |-> "k_0c", val |-> test_tensor(20, m)]>> :
                 n \in StoredLengths, m \in StoredLengths}

Calls ==
    {[fn |-> "format_timestamp", arg |-> t] : t \in TimeValues}
        \cup {[fn |-> "prepare_srt", arg |-> t] : t \in Transcriptions}
        \cup {[fn |-> "save_to_cache",
               arg |-> [cache |-> c, module |-> m,
                        output |-> test_tensor(30, n)]] :
                 c \in TestCaches, m \in {"k_0a", "k_0c", "v_0a"},
                 n \in OutputLengths}

(***************************************************************************)
(* State before anything ran.                                              *)
(***************************************************************************)
NoCall ==
    [op |-> "none", prev_op |-> "none", dropped |-> FALSE, passed |-> 0,
     offset |-> 0, feed_dict |-> <<>>, log |-> <<>>, cache_in |-> <<>>,
     cache_out |-> <<>>, tokens |-> <<>>, source_indices |-> <<>>]

\* The record of an operation that is no decoder call.
Plain(op, dropped) ==
    [op |-> op, prev_op |-> last_call.op, dropped |-> dropped, passed |-> 0,
     offset |-> 0, feed_dict |-> <<>>, log |-> <<>>, cache_in |-> <<>>,
     cache_out |-> <<>>, tokens |-> <<>>, source_indices |-> <<>>]

InitDecode ==
    /\ script = "start"
    /\ export_cache = <<>>
    /\ decoder_inputs = <<>>
    /\ inference = new_inference(0)
    /\ last_call = NoCall
    /\ processed = 0

(***************************************************************************)
(* SpecCalls: one call of format_timestamp, prepare_srt or save_to_cache,  *)
(* applied once to arguments drawn by Init.                                *)
(***************************************************************************)
InitCalls ==
    /\ call \in Calls
    /\ pc = "called"
    /\ result = NoResult
    /\ InitDecode

FormatTimestamp ==
    /\ call.fn = "format_timestamp"
    /\ pc = "called"
    /\ pc' = "returned"
    /\ result' = format_timestamp(call.arg)
    /\ UNCHANGED <<call, decode_vars>>

PrepareSrt ==
    /\ call.fn = "prepare_srt"
    /\ pc = "called"
    /\ pc' = "returned"
    /\ result' = prepare_srt(call.arg)
    /\ UNCHANGED <<call, decode_vars>>

SaveToCache ==
    /\ call.fn = "save_to_cache"
    /\ pc = "called"
    /\ pc' = "returned"
    /\ result' = Return(save_to_cache(call.arg.cache, call.arg.module,
                                      call.arg.output))
    /\ UNCHANGED <<call, decode_vars>>

NextCalls == FormatTimestamp \/ PrepareSrt \/ SaveToCache

SpecCalls == InitCalls /\ [][NextCalls]_vars

(***************************************************************************)
(* Spec: the notebook.  The decoder is called once on an empty cache, then *)
(* traced for the export on the cache of that call; the exported graph is  *)
(* loaded as model.decoder; then decoding tasks run, each with an          *)
(* OpenVINOInference of its own, on which the decoding loop calls logits,  *)
(* rearrange_kv_cache and cleanup_caching.                                 *)
(***************************************************************************)
MaxInitialTokens == 2
\* The audio segments decoded, told apart by a label.
AudioClips == {1, 2}

\* The token tensor of n columns handed to logits: row r holds token 10 * r
\* in every column but the last and token 10 * r + 1 in the last, so that the
\* beams differ and the last column differs from the others.
row_tokens(n) ==
    [r \in 1..BeamSize |->
        [i \in 1..n |-> IF i = n THEN 10 * r + 1 ELSE 10 * r]]

\* Selections of beams: each beam its own, all the first, every surviving
\* beam twice.
SourceIndices ==
    {[j \in 1..BeamSize |-> j],
     [j \in 1..BeamSize |-> 1],
     [j \in 1..BeamSize |-> (j + 1) \div 2]}

IdleCall == [fn |-> "none", arg |-> 0]

Init ==
    /\ call = IdleCall
    /\ pc = "returned"
    /\ result = NoResult
    /\ InitDecode

\* tokens = torch.ones((5, 3)); logits, kv_cache = model.decoder(tokens,
\* audio_features, kv_cache={})
FirstCall ==
    /\ script = "start"
    /\ \E r \in {decoder_forward(ones(ExampleTokens), example_audio_features,
                                 Some(<<>>))} :
           /\ export_cache' = r.kv_cache.v
           /\ last_call' =
                  [op |-> "first_call", prev_op |-> last_call.op,
                   dropped |-> FALSE, passed |-> ExampleTokens,
                   offset |-> r.offset, feed_dict |-> <<>>, log |-> r.log,
                   cache_in |-> <<>>, cache_out |-> r.kv_cache.v,
                   tokens |-> ones(ExampleTokens), source_indices |-> <<>>]
    /\ script' = "called"
    /\ UNCHANGED <<call_vars, decoder_inputs, inference, processed>>

\* tokens = torch.ones((5, 1)); torch.onnx.export(model.decoder, {'x': tokens,
\* 'xa': audio_features, 'kv_cache': kv_cache}, ...): the tracer runs the
\* decoder on the entries of the cache of the first call.  The tracer is not
\* part of the source: it hands the decoder either the dict itself, which the
\* run then updates in place, or a dict rebuilt from its tensors, which
\* leaves the global kv_cache as the first call left it.
ExportTrace ==
    /\ script = "called"
    /\ \E r \in {decoder_forward(ones(1), example_audio_features,
                                 Some(export_cache))} :
           /\ \E in_place \in BOOLEAN :
                 export_cache' = IF in_place THEN r.kv_cache.v
                                 ELSE export_cache
           /\ last_call' =
                  [op |-> "export", prev_op |-> last_call.op,
                   dropped |-> FALSE, passed |-> 1, offset |-> r.offset,
                   feed_dict |-> <<>>, log |-> r.log, cache_in |-> export_cache,
                   cache_out |-> r.kv_cache.v, tokens |-> ones(1),
                   source_indices |-> <<>>]
    /\ script' = "exported"
    /\ UNCHANGED <<call_vars, decoder_inputs, inference, processed>>

\* model.decoder = OpenVINOTextDecoder(core, 'whisper_decoder.xml', ...)
LoadDecoder ==
    /\ script = "exported"
    /\ \E with_cross \in BOOLEAN : decoder_inputs' = input_names_of(with_cross)
    /\ script' = "loaded"
    /\ last_call' = Plain("load", FALSE)
    /\ UNCHANGED <<call_vars, export_cache, inference, processed>>

\* OpenVINODecodingTask(model, options): self.inference =
\* OpenVINOInference(model, len(self.initial_tokens))
NewTask ==
    /\ script \in {"loaded", "decoding"}
    /\ \E n \in 1..MaxInitialTokens : inference' = new_inference(n)
    /\ script' = "decoding"
    /\ processed' = 0
    /\ last_call' = Plain("new_task", FALSE)
    /\ UNCHANGED <<call_vars, export_cache, decoder_inputs>>

\* self.inference.logits(tokens, audio_features), the tokens shorter than,
\* as long as or longer than the initial tokens.  The decoding loop keeps the
\* tokens within the positional embedding table, and decodes one audio
\* segment from an empty cache until the cache is cleaned up.
Logits ==
    /\ script = "decoding"
    /\ \E n \in 1..(MaxInitialTokens + 1), a \in AudioClips :
         \E passed \in {shape1(tokens_passed(inference, row_tokens(n)))} :
           /\ cache_offset(Some(inference.kv_cache)) + passed
                  <= positional_embeddings_size
           /\ IF Len(inference.kv_cache) = 0 THEN TRUE
              ELSE dict_get(inference.kv_cache, "k_0c")
                       = key(audio_features_of(a))
           /\ \E r \in {inference_logits(inference, decoder_inputs,
                                          row_tokens(n),
                                          audio_features_of(a))} :
               /\ inference' = r.self
               /\ processed' = processed + passed
               /\ last_call' =
                      [op |-> "logits", prev_op |-> last_call.op,
                       dropped |-> last_call.dropped, passed |-> passed,
                       offset |-> r.offset, feed_dict |-> r.feed_dict,
                       log |-> r.log, cache_in |-> inference.kv_cache,
                       cache_out |-> r.self.kv_cache,
                       tokens |-> row_tokens(n), source_indices |-> <<>>]
    /\ UNCHANGED <<call_vars, script, export_cache, decoder_inputs>>

\* self.inference.cleanup_caching()
CleanupCaching ==
    /\ script = "decoding"
    /\ inference' = cleanup_caching(inference)
    /\ processed' = 0
    /\ last_call' = Plain("cleanup_caching", Len(inference.kv_cache) > 0)
    /\ UNCHANGED <<call_vars, script, export_cache, decoder_inputs>>

\* self.inference.rearrange_kv_cache(source_indices)
RearrangeKvCache ==
    /\ script = "decoding"
    /\ \E source_indices \in SourceIndices :
         /\ inference' = rearrange_kv_cache(inference, source_indices)
         /\ last_call' = [Plain("rearrange_kv_cache", FALSE) EXCEPT
                              !.source_indices = source_indices]
    /\ UNCHANGED <<call_vars, script, export_cache, decoder_inputs, processed>>

Next ==
    \/ FirstCall
    \/ ExportTrace
    \/ LoadDecoder
    \/ NewTask
    \/ Logits
    \/ CleanupCaching
    \/ RearrangeKvCache

Spec == Init /\ [][Next]_vars

(***************************************************************************)
(* Claims about format_timestamp and prepare_srt (checked under SpecCalls).  *)
(***************************************************************************)
\* Exactly two / three decimal digits of n.
TwoDigits(n) == Digit[((n \div 10) % 10) + 1] \o Digit[(n % 10) + 1]
ThreeDigits(n) == Digit[((n \div 100) % 10) + 1] \o TwoDigits(n)

Abs(n) == IF n < 0 THEN -n ELSE n

TimestampReturned ==
    call.fn = "format_timestamp" /\ pc = "returned" /\ ~result.raised

SrtReturned == call.fn = "prepare_srt" /\ pc = "returned" /\ ~result.raised

\* "MM:SS,mmm" of a total of T milliseconds, by division and remainder.
ClockOf(T) ==
    TwoDigits((T % 3600000) \div 60000) \o ":"
        \o TwoDigits((T % 60000) \div 1000) \o "," \o ThreeDigits(T % 1000)

\* C1: for a non-negative time value whose rounded total is T milliseconds,
\* format_timestamp prints hours = T div 3600000, minutes = (T mod 3600000)
\* div 60000, seconds = (T mod 60000) div 1000 and milliseconds = T mod 1000;
\* minutes < 60, seconds < 60, milliseconds < 1000, the fields add up to T,
\* minutes and seconds take two digits and milliseconds three.
C1_TimestampFields ==
    TimestampReturned =>
        LET T == round_milliseconds(call.arg)
            f == timestamp_fields(T)
            h == T \div 3600000
            x == times_1000(call.arg)
        IN  /\ 2 * Abs(T * x.den - x.num) <= x.den
            /\ f = [hours |-> h, minutes |-> (T % 3600000) \div 60000,
                    seconds |-> (T % 60000) \div 1000,
                    milliseconds |-> T % 1000]
            /\ f.minutes < 60 /\ f.seconds < 60 /\ f.milliseconds < 1000
            /\ f.hours * 3600000 + f.minutes * 60000 + f.seconds * 1000
                   + f.milliseconds = T
            /\ \E marker \in {str(h) \o ":", zfill(str(h), 2) \o ":"} :
                   result.value = marker \o ClockOf(T)
            /\ Len(result.value) \in {Len(str(h)) + 10, Len(zfill(str(h), 2)) + 10}

\* C1 witness: 100 h 59 min 59.999 s was formatted.
C1_Witness ==
    /\ TimestampReturned
    /\ call.arg = Time(363599999, 1000)
    /\ result.value = "100:59:59,999"

\* C2 (as claimed): with a non-zero hour count the hours are printed as a
\* two-digit zero-padded field, and 3661.234 s is formatted "01:01:01,234".
C2_HoursTwoDigits ==
    TimestampReturned =>
        LET T == round_milliseconds(call.arg)
            h == T \div 3600000
        IN  /\ h > 0 => result.value = zfill(str(h), 2) \o ":" \o ClockOf(T)
            /\ call.arg = Time(3661234, 1000) => result.value = "01:01:01,234"

\* C3: below one hour (rounded total under 3600000 ms) the hours prefix is
\* "00:", and 5.0 s is formatted "00:00:05,000".
C3_ZeroHoursPrefix ==
    TimestampReturned =>
        LET T == round_milliseconds(call.arg)
        IN  /\ T < 3600000 => result.value = "00:" \o ClockOf(T)
            /\ call.arg = Time(5000, 1000) => result.value = "00:00:05,000"

\* C3 witness: 5.0 s was formatted.
C3_Witness ==
    /\ TimestampReturned
    /\ call.arg = Time(5000, 1000)
    /\ result.value = "00:00:05,000"

\* C4: prepare_srt emits one block per segment, in segment order, each block
\* three consecutive entries: the index line, "<start> --> <end>" and the
\* text followed by a blank line; N segments give 3*N entries, none give
\* the empty list.
C4_BlockPerSegment ==
    SrtReturned =>
        LET segments == call.arg.segments
            lines == result.value
        IN  /\ Len(lines) = 3 * Len(segments)
            /\ \A k \in 1..Len(segments) :
                   /\ lines[3 * k - 2] = str(segments[k].id + 1) \o "\n"
                   /\ lines[3 * k - 1] =
                          format_timestamp(segments[k].start).value \o " --> "
                              \o format_timestamp(segments[k].end).value \o "\n"
                   /\ lines[3 * k] = segments[k].text \o "\n\n"

\* C4 witness: two segments with different times and texts were written.
C4_Witness ==
    /\ SrtReturned
    /\ Len(call.arg.segments) = 2
    /\ call.arg.segments[1].text # call.arg.segments[2].text
    /\ call.arg.segments[1].start # call.arg.segments[2].start
    /\ call.arg.segments[1].start # call.arg.segments[1].end
    /\ Len(result.value) = 6

\* C5 (as claimed): the k-th block carries index k, whatever the "id" values
\* of the segments are.
C5_SequentialIndices ==
    SrtReturned =>
        \A k \in 1..Len(call.arg.segments) :
            result.value[3 * k - 2] = str(k) \o "\n"

\* C8: format_timestamp fails its assertion on a negative number of seconds
\* and returns no string; prepare_srt on a transcription with a segment
\* whose start or end is negative fails and returns no lines.
C8_NegativeRejected ==
    /\ (call.fn = "format_timestamp" /\ pc = "returned" /\ call.arg.num < 0)
           => result = Raise("non-negative timestamp expected")
    /\ (call.fn = "prepare_srt" /\ pc = "returned"
           /\ \E k \in 1..Len(call.arg.segments) :
                  \/ call.arg.segments[k].start.num < 0
                  \/ call.arg.segments[k].end.num < 0)
           => result = Raise("non-negative timestamp expected")

\* C8 witness: a transcription whose second segment ends at a negative time
\* (the first being valid) was rejected.
C8_Witness ==
    /\ call.fn = "prepare_srt" /\ pc = "returned"
    /\ Len(call.arg.segments) = 2
    /\ call.arg.segments[1].start.num >= 0 /\ call.arg.segments[1].end.num >= 0
    /\ call.arg.segments[2].start.num >= 0 /\ call.arg.segments[2].end.num < 0
    /\ result.raised

(***************************************************************************)
(* Claims about save_to_cache (checked under SpecCalls).                   *)
(***************************************************************************)
SaveReturned == call.fn = "save_to_cache" /\ pc = "returned"

\* Tensor t is tensor a followed by tensor b along the sequence axis.
Followed(t, a, b) ==
    /\ Len(t) = Len(a) /\ Len(t) = Len(b)
    /\ \A r \in 1..Len(t) :
          /\ Len(t[r]) = Len(a[r]) + Len(b[r])
          /\ \A i \in 1..Len(t[r]) :
                t[r][i] = IF i <= Len(a[r]) THEN a[r][i]
                          ELSE b[r][i - Len(a[r])]

\* C6: when the module key is not in the cache, or the new output is longer
\* than positional_embeddings_size, the stored value becomes the new output;
\* otherwise it becomes the old value followed by the new output along the
\* sequence axis, its length the sum of the two.  The value returned is the
\* value now stored, and no other key of the cache changes.
C6_CacheUpdateRule ==
    SaveReturned =>
        LET cache == call.arg.cache
            module == call.arg.module
            output == call.arg.output
            after == result.value.cache
        IN  /\ dict_has(after, module)
            /\ IF ~dict_has(cache, module)
                    \/ shape1(output) > positional_embeddings_size
               THEN dict_get(after, module) = output
               ELSE /\ Followed(dict_get(after, module),
                                dict_get(cache, module), output)
                    /\ shape1(dict_get(after, module)) =
                           shape1(dict_get(cache, module)) + shape1(output)
            /\ result.value.value = dict_get(after, module)
            /\ \A k \in {"k_0a", "k_0c", "v_0a"} \ {module} :
                  /\ dict_has(after, k) = dict_has(cache, k)
                  /\ dict_has(cache, k) =>
                         dict_get(after, k) = dict_get(cache, k)
            /\ Len(after) = Len(cache) + IF dict_has(cache, module) THEN 0 ELSE 1

\* C6 witness: an output exactly as long as the table was appended to a
\* stored entry, beside another entry.
C6_Witness ==
    /\ SaveReturned
    /\ Len(call.arg.cache) = 2
    /\ dict_has(call.arg.cache, call.arg.module)
    /\ shape1(dict_get(call.arg.cache, call.arg.module)) = 1
    /\ shape1(call.arg.output) = positional_embeddings_size
    /\ shape1(result.value.value) = positional_embeddings_size + 1

(***************************************************************************)
(* Claims about the key/value cache of a decoding task (checked under      *)
(* Spec).                                                                  *)
(***************************************************************************)
CacheInputs ==
    {decoder_inputs[i] : i \in 1..Len(decoder_inputs)}
        \ {"tokens", "audio_features"}

\* C7: after cleanup_caching the cache is the empty mapping whatever calls
\* came before, and the next logits call is handled as a first step: every
\* cache input of the decoder is fed a zero-length previous sequence and
\* nothing of the earlier cache reaches the decoder.
C7_CacheReset ==
    /\ last_call.op = "cleanup_caching" => Len(inference.kv_cache) = 0
    /\ (last_call.op = "logits" /\ last_call.prev_op = "cleanup_caching") =>
          /\ \A name \in CacheInputs :
                /\ dict_has(last_call.feed_dict, name)
                /\ dict_get(last_call.feed_dict, name) = zeros(BeamSize)
          /\ \A i \in 1..Len(last_call.feed_dict) :
                \/ last_call.feed_dict[i].key \in {"tokens", "audio_features"}
                \/ shape1(last_call.feed_dict[i].val) = 0
          /\ last_call.offset = 0
          /\ \A k \in self_attention_keys :
                shape1(dict_get(inference.kv_cache, k)) = last_call.passed

\* C7 witness: a logits call right after a cleanup_caching that discarded a
\* cache which was not empty.
C7_Witness ==
    /\ last_call.op = "logits"
    /\ last_call.prev_op = "cleanup_caching"
    /\ last_call.dropped
    /\ Len(inference.kv_cache) > 0

\* C9: during one decode, after every decoder call each self-attention
\* entry (k_<i>a, v_<i>a) is as long as the number of tokens handed to the
\* decoder so far in this decode, all of them alike, and it is the entry of
\* before the call followed by the new columns.
C9_SelfAttentionGrows ==
    (script = "decoding" /\ processed > 0) =>
        /\ \A k \in self_attention_keys :
              /\ dict_has(inference.kv_cache, k)
              /\ shape1(dict_get(inference.kv_cache, k)) = processed
        /\ (last_call.op = "logits" /\ Len(last_call.cache_in) > 0) =>
              \A k \in self_attention_keys :
                 LET new == dict_get(inference.kv_cache, k)
                     old == dict_get(last_call.cache_in, k)
                 IN  /\ shape1(new) = shape1(old) + last_call.passed
                     /\ \A r \in 1..BeamSize :
                           SubSeq(new[r], 1, shape1(old)) = old[r]

\* C9 witness: a decoder call of one token on a cache of at least two
\* columns.
C9_Witness ==
    /\ script = "decoding"
    /\ last_call.op = "logits"
    /\ last_call.passed = 1
    /\ last_call.offset >= 2
    /\ processed = last_call.offset + 1
    /\ shape1(dict_get(inference.kv_cache, "k_0a")) = processed

\* The cache a decoder call left behind.
CacheAfterCall == last_call.cache_out

\* C10 (as claimed): once the entries k_<i>c and v_<i>c are in the cache, a
\* later call for the same module applies no key or value projection and
\* writes neither entry, and both keep the value stored by the first call.
C10_CrossComputedOnce ==
    last_call.op \in {"export", "logits"} =>
        \A i \in 0..(NumBlocks - 1) :
            LET idx == str(i) \o "c"
            IN  (/\ dict_has(last_call.cache_in, "k_" \o idx)
                 /\ dict_has(last_call.cache_in, "v_" \o idx)) =>
                    /\ \A e \in 1..Len(last_call.log) :
                          last_call.log[e] \notin
                              {<<"key", idx>>, <<"value", idx>>,
                               <<"save", "k_" \o idx>>,
                               <<"save", "v_" \o idx>>}
                    /\ dict_get(CacheAfterCall, "k_" \o idx) =
                           dict_get(last_call.cache_in, "k_" \o idx)
                    /\ dict_get(CacheAfterCall, "v_" \o idx) =
                           dict_get(last_call.cache_in, "v_" \o idx)

(***************************************************************************)
(* Claims about OpenVINOInference.logits and rearrange_kv_cache and about  *)
(* the positions of decoder_forward (checked under Spec).                  *)
(***************************************************************************)
\* The tokens the decoder was fed by the last logits call.
TokensFed == dict_get(last_call.feed_dict, "tokens")

\* C11: logits hands the decoder only the last token of each sequence when
\* the sequences are longer than initial_token_length, and the whole
\* sequences when they are at most that long; in both cases self.kv_cache
\* becomes the cache the decoder returned for what it was fed.
C11_LastTokenOnly ==
    last_call.op = "logits" =>
        LET tokens == last_call.tokens
        IN  /\ shape1(tokens) > inference.initial_token_length =>
                  /\ shape0(TokensFed) = shape0(tokens)
                  /\ shape1(TokensFed) = 1
                  /\ \A r \in 1..shape0(tokens) :
                        TokensFed[r] = <<tokens[r][Len(tokens[r])]>>
            /\ shape1(tokens) <= inference.initial_token_length =>
                  TokensFed = tokens
            /\ last_call.passed = shape1(TokensFed)
            /\ inference.kv_cache =
                  postprocess_outputs(
                      compiled_model(last_call.feed_dict).outputs).kv_cache
            /\ dict_keys(inference.kv_cache) = export_keys

\* C11 witness: both cases have happened in one decode: the whole initial
\* sequence of two tokens was passed first, and the last call was handed
\* three tokens and passed on the last one only.
C11_Witness ==
    /\ last_call.op = "logits"
    /\ inference.initial_token_length = 2
    /\ shape1(last_call.tokens) = 3
    /\ shape1(TokensFed) = 1
    /\ TokensFed[1] = <<11>>
    /\ Len(last_call.cache_in) > 0
    /\ shape1(dict_get(last_call.cache_in, "k_0a")) = 2
    /\ processed = 3

\* C12: rearrange_kv_cache(source_indices) only re-selects along the beam
\* axis: the cache keeps its module keys in their order, every entry keeps
\* its sequence length, and row j of every entry is the former row
\* source_indices[j] of that entry; initial_token_length and the model stay
\* as they were, and an empty cache stays empty.
C12_OnlyReselects ==
    [][last_call'.op = "rearrange_kv_cache" =>
          LET source_indices == last_call'.source_indices
              old == inference.kv_cache
              new == inference'.kv_cache
          IN  /\ dict_keys(new) = dict_keys(old)
              /\ \A i \in 1..Len(old) :
                    /\ shape1(new[i].val) = shape1(old[i].val)
                    /\ shape0(new[i].val) = Len(source_indices)
                    /\ \A j \in 1..Len(source_indices) :
                          new[i].val[j] = old[i].val[source_indices[j]]
              /\ inference'.initial_token_length =
                     inference.initial_token_length
              /\ UNCHANGED <<decoder_inputs, export_cache, script>>
              /\ Len(old) = 0 => inference' = inference]_vars

\* C12 witness: a cache of two columns was rearranged so that every
\* surviving beam is there twice: the third row is the one of beam 2 and
\* the fifth the one of beam 3.
C12_Witness ==
    /\ last_call.op = "rearrange_kv_cache"
    /\ last_call.source_indices = [j \in 1..BeamSize |-> (j + 1) \div 2]
    /\ Len(inference.kv_cache) > 0
    /\ shape1(dict_get(inference.kv_cache, "k_0a")) = 2
    /\ dict_get(inference.kv_cache, "k_0a")[3] = <<<<20, 0>>, <<21, 1>>>>
    /\ dict_get(inference.kv_cache, "v_1a")[5] = <<<<30, 0>>, <<31, 1>>>>

\* The cache the last decoder call worked on: the one it was handed, and for
\* the exported graph the "in_<key>" inputs it was fed.
CacheOfCall ==
    IF last_call.op = "logits" THEN graph_cache(last_call.feed_dict)
    ELSE last_call.cache_in

\* Column i of every row of tensor t was embedded at position i - 1.
PositionsInOrder(t) ==
    \A r \in 1..shape0(t) : \A i \in 1..Len(t[r]) : t[r][i][2] = i - 1

\* C13: the offset of decoder_forward is the number of tokens already
\* processed in the decode: 0 on an empty cache or None, otherwise the
\* sequence length of the first cache entry, which is the self-attention
\* entry k_0a; so the positions used over a decode are 0, 1, 2, ... in order
\* with no gap and no repeat.
C13_OffsetIsProcessed ==
    /\ cache_offset(None) = 0
    /\ cache_offset(Some(<<>>)) = 0
    /\ last_call.op \in {"first_call", "export", "logits"} =>
          /\ Len(CacheOfCall) = 0 => last_call.offset = 0
          /\ Len(CacheOfCall) > 0 =>
                /\ CacheOfCall[1].key = "k_0a"
                /\ last_call.offset = shape1(CacheOfCall[1].val)
          /\ last_call.op = "first_call" => last_call.offset = 0
          /\ last_call.op = "export" => last_call.offset = ExampleTokens
          /\ last_call.op = "logits" =>
                last_call.offset = processed - last_call.passed
          /\ CacheAfterCall[1].key = "k_0a"
          /\ \A k \in self_attention_keys :
                LET t == dict_get(CacheAfterCall, k)
                IN  /\ shape1(t) = last_call.offset + last_call.passed
                    /\ PositionsInOrder(t)
    /\ \A i \in 1..Len(inference.kv_cache) :
          inference.kv_cache[i].key \in self_attention_keys =>
              /\ shape1(inference.kv_cache[i].val) = processed
              /\ PositionsInOrder(inference.kv_cache[i].val)

\* C13 witness: a third decoder call of a decode, of one token on a cache
\* of two, after the beams were re-selected: the new column is at position 2.
C13_Witness ==
    /\ last_call.op = "logits"
    /\ last_call.prev_op = "rearrange_kv_cache"
    /\ last_call.offset = 2
    /\ last_call.passed = 1
    /\ processed = 3
    /\ \A r \in 1..BeamSize :
          dict_get(inference.kv_cache, "k_0a")[r][3] = <<10 * r + 1, 2>>

====
